---- MODULE Spec2Model ----
(***************************************************************************)
(* A model of updater.py: the Modrinth mod updater.  main() analyses the   *)
(* local archives, seeds a FIFO queue of project identities, and drains    *)
(* the queue, selecting one version per identity and enqueueing required   *)
(* dependencies.  The registry (Modrinth) is an external collaborator: its *)
(* contents are drawn at Init and every request may fail in transport.     *)
(* Identities are the key strings the code uses: a project's slug and its  *)
(* id are different identities.  File names (all end in ".jar") and         *)
(* registry slugs and ids are disjoint sets of strings.                    *)
(***************************************************************************)
EXTENDS Integers, Sequences, FiniteSets, TLC

\* ------------------------------------------------------------------------
\* Bounds
\* ------------------------------------------------------------------------
MaxArchives == 2   \* at most this many .jar files in the mods directory
MaxFailures == 1   \* at most this many failed registry requests per run
MaxVersions == 3   \* longest version list handed to the selector on its own

\* ------------------------------------------------------------------------
\* Small helpers
\* ------------------------------------------------------------------------
Range(s) == {s[i] : i \in 1..Len(s)}

NoDup(s) == \A i, j \in 1..Len(s) : i # j => s[i] # s[j]

RECURSIVE Join(_)
Join(cs) == IF cs = <<>> THEN "" ELSE Head(cs) \o Join(Tail(cs))

RECURSIVE Perms(_)
Perms(S) ==
    IF S = {} THEN {<<>>}
    ELSE UNION {{<<x>> \o p : p \in Perms(S \ {x})} : x \in S}

None == ""   \* Python None / empty string: both are falsy in the code's tests

\* ------------------------------------------------------------------------
\* Filename heuristic (find_modrinth_project, lines 79-80), character level
\* ------------------------------------------------------------------------
LowerLetters == <<"a","b","c","d","e","f","g","h","i","j","k","l","m",
                  "n","o","p","q","r","s","t","u","v","w","x","y","z">>
UpperLetters == <<"A","B","C","D","E","F","G","H","I","J","K","L","M",
                  "N","O","P","Q","R","S","T","U","V","W","X","Y","Z">>
Digits == {"0","1","2","3","4","5","6","7","8","9"}
Delims == {"-", "_", "."}

IsDelim(c) == c \in Delims
IsDigit(c) == c \in Digits
IsWord(c) == c \in Range(LowerLetters) \cup Range(UpperLetters) \cup Digits \cup {"_"}

\* str.lower()
LowerChar(c) ==
    IF \E i \in 1..26 : UpperLetters[i] = c
    THEN LowerLetters[CHOOSE i \in 1..26 : UpperLetters[i] = c]
    ELSE c
Lower(cs) == [i \in 1..Len(cs) |-> LowerChar(cs[i])]

\* str.removesuffix(".jar")
JarSuffix == <<".", "j", "a", "r">>
RemoveJarSuffix(cs) ==
    IF Len(cs) >= 4 /\ SubSeq(cs, Len(cs) - 3, Len(cs)) = JarSuffix
    THEN SubSeq(cs, 1, Len(cs) - 4)
    ELSE cs

StartsWithAt(cs, p, tok) ==
    /\ p >= 1
    /\ p + Len(tok) - 1 <= Len(cs)
    /\ SubSeq(cs, p, p + Len(tok) - 1) = tok

\* end (exclusive) of the greedy run \w* starting at p
RECURSIVE WordRunEnd(_, _)
WordRunEnd(cs, p) ==
    IF p <= Len(cs) /\ IsWord(cs[p]) THEN WordRunEnd(cs, p + 1) ELSE p

\* (fabric|forge|quilt|neo\w*) tried at q: position after the token, 0 if none
TokenEnd(cs, q) ==
    IF StartsWithAt(cs, q, <<"f","a","b","r","i","c">>) THEN q + 6
    ELSE IF StartsWithAt(cs, q, <<"f","o","r","g","e">>) THEN q + 5
    ELSE IF StartsWithAt(cs, q, <<"q","u","i","l","t">>) THEN q + 5
    ELSE IF StartsWithAt(cs, q, <<"n","e","o">>) THEN WordRunEnd(cs, q + 3)
    ELSE 0

\* [-_.]?(fabric|forge|quilt|neo\w*)[-_.]? tried at p: position after the
\* match, 0 if the pattern does not match at p
LoaderMatchEnd(cs, p) ==
    LET q == IF p <= Len(cs) /\ IsDelim(cs[p]) /\ TokenEnd(cs, p + 1) # 0
             THEN p + 1 ELSE p
        e == TokenEnd(cs, q)
    IN  IF e = 0 THEN 0
        ELSE IF e <= Len(cs) /\ IsDelim(cs[e]) THEN e + 1 ELSE e

\* re.sub(pattern, '', s): leftmost non-overlapping matches removed
RECURSIVE RemoveLoaderTokens(_, _)
RemoveLoaderTokens(cs, p) ==
    IF p > Len(cs) THEN <<>>
    ELSE LET e == LoaderMatchEnd(cs, p)
         IN  IF e # 0 THEN RemoveLoaderTokens(cs, e)
             ELSE <<cs[p]>> \o RemoveLoaderTokens(cs, p + 1)

\* re.split(r'[-_.]?\d', s, 1)[0]: the text before the first match
VersionStartsAt(cs, p) ==
    \/ IsDigit(cs[p])
    \/ IsDelim(cs[p]) /\ p + 1 <= Len(cs) /\ IsDigit(cs[p + 1])
BeforeVersion(cs) ==
    IF \E p \in 1..Len(cs) : VersionStartsAt(cs, p)
    THEN LET p == CHOOSE q \in 1..Len(cs) :
                     /\ VersionStartsAt(cs, q)
                     /\ \A r \in 1..(q - 1) : ~VersionStartsAt(cs, r)
         IN  SubSeq(cs, 1, p - 1)
    ELSE cs

\* str.strip("-_.")
RECURSIVE StripLeft(_)
StripLeft(cs) ==
    IF cs # <<>> /\ IsDelim(Head(cs)) THEN StripLeft(Tail(cs)) ELSE cs
RECURSIVE StripRight(_)
StripRight(cs) ==
    IF cs # <<>> /\ IsDelim(cs[Len(cs)])
    THEN StripRight(SubSeq(cs, 1, Len(cs) - 1)) ELSE cs
Strip(cs) == StripRight(StripLeft(cs))

\* lines 79-80 as a whole: filename characters -> candidate string
filename_slug(cs) ==
    Join(Strip(BeforeVersion(RemoveLoaderTokens(RemoveJarSuffix(Lower(cs)), 1))))

\* lines 15-18
MOD_ID_OVERRIDES ==
    [k \in {"voicechat", "voicechat-fabric"} |-> "simple-voice-chat"]

\* lines 82-83 left out
apply_overrides_skipped(mod_id) == mod_id
apply_overrides(mod_id) ==
    IF mod_id \in DOMAIN MOD_ID_OVERRIDES THEN MOD_ID_OVERRIDES[mod_id] ELSE mod_id

\* ------------------------------------------------------------------------
\* The registry (Modrinth): projects, their version lists, search
\* ------------------------------------------------------------------------
GameVersions == {"1.20", "1.21"}
Loaders == {"fabric", "forge"}
PlatformInputs == {"Fabric"}   \* what the operator types for -p

\* str.lower() on the loader argument (line 156)
lower_loader(s) == IF s = "Fabric" THEN "fabric" ELSE s

\* A project as returned by GET /project/{id|slug} and by a search hit.
Absent == [id |-> None, slug |-> None, title |-> None, keywords |-> {}]
ProjectA == [id |-> "idA", slug |-> "mod-a", title |-> "Mod A",
             keywords |-> {"mod-a", "moda"}]
ProjectB == [id |-> "idB", slug |-> "mod-b", title |-> "Mod B",
             keywords |-> {"mod-b"}]
ProjectC == [id |-> "idC", slug |-> "simple-voice-chat", title |-> "Simple Voice Chat",
             keywords |-> {"simple-voice-chat", "voicechat"}]
Projects == <<ProjectA, ProjectB, ProjectC>>
ProjectIds == {Projects[i].id : i \in 1..Len(Projects)}

Found(project) == project # Absent

\* the project a key (slug or id) names, Absent when the registry answers 404
ProjectByKey(key) ==
    IF \E i \in 1..Len(Projects) : key \in {Projects[i].id, Projects[i].slug}
    THEN Projects[CHOOSE i \in 1..Len(Projects) : key \in {Projects[i].id, Projects[i].slug}]
    ELSE Absent

\* the top-ranked search hit for a query, Absent when there are no hits
SearchHit(query) ==
    IF \E i \in 1..Len(Projects) : query \in Projects[i].keywords
    THEN Projects[CHOOSE i \in 1..Len(Projects) :
                     /\ query \in Projects[i].keywords
                     /\ \A j \in 1..(i - 1) : query \notin Projects[j].keywords]
    ELSE Absent

File(name, primary) == [filename |-> name, primary |-> primary]
Dep(project_id, kind) == [project_id |-> project_id, dependency_type |-> kind]
Version(num, type, gvs, lds, files, deps) ==
    [version_number |-> num, version_type |-> type, game_versions |-> gvs,
     loaders |-> lds, files |-> files, dependencies |-> deps]

\* Version lists a project may have, newest first as the registry lists them.
VersionsA1 ==
    << Version("a-2.0-beta", "beta", {"1.20", "1.21"}, {"fabric"},
               <<File("mod-a-2.0.jar", TRUE)>>,
               <<Dep("idB", "required")>>),
       Version("a-1.5", "release", {"1.20"}, {"fabric", "forge"},
               <<File("mod-a-1.5-sources.jar", FALSE), File("mod-a-1.5.jar", TRUE)>>,
               <<Dep("idB", "required"), Dep("idC", "optional")>>) >>
VersionsA2 ==
    << Version("a-3.0", "release", {"1.20", "1.21"}, {"fabric", "forge"},
               <<File("mod-a-3.0.jar", TRUE)>>,
               <<Dep("idC", "required"), Dep("idC", "required")>>) >>
VersionsB1 ==
    << Version("b-1.0-forge", "release", {"1.20", "1.21"}, {"forge"},
               <<File("mod-b-1.0-forge.jar", TRUE)>>, <<>>),
       Version("b-1.0", "release", {"1.20", "1.21"}, {"fabric"},
               <<File("mod-b-1.0.jar", TRUE)>>,
               <<Dep("idA", "required"), Dep(None, "required"),
                 Dep("idC", "required")>>) >>
VersionsB2 ==
    << Version("b-0.9", "release", {"1.20"}, {"fabric"},
               <<File("mod-b-0.9-dev.jar", FALSE)>>,
               <<Dep("idC", "required")>>) >>
VersionsC1 == << >>
VersionsC2 ==
    << Version("c-0.1", "beta", {"1.20", "1.21"}, {"fabric", "forge"},
               <<File("voicechat-0.1.jar", TRUE)>>,
               <<Dep("idA", "incompatible"), Dep("idB", "embedded"),
                 Dep("idX", "required")>>) >>
Registry(a, b, c) ==
    [id \in ProjectIds |-> IF id = "idA" THEN a ELSE IF id = "idB" THEN b ELSE c]
\* every pair of version lists of two projects occurs in one registry
Registries ==
    { Registry(VersionsA1, VersionsB1, VersionsC1),
      Registry(VersionsA1, VersionsB2, VersionsC2),
      Registry(VersionsA2, VersionsB1, VersionsC2),
      Registry(VersionsA2, VersionsB2, VersionsC1) }

\* ------------------------------------------------------------------------
\* Pure functions of updater.py
\* ------------------------------------------------------------------------
\* line 98 without the game version test
is_candidate_any_game_version(v, game_version, loader) ==
    loader \in v.loaders
\* line 98: the comprehension's condition
is_candidate(v, game_version, loader) ==
    game_version \in v.game_versions /\ loader \in v.loaders

\* line 100 with every candidate taken for a release
is_release_any(v) == TRUE

\* line 100: the release preference
is_release(v) == v.version_type = "release"

\* lines 96-101
filter_versions(versions, game_version, loader) ==
    LET candidates == SelectSeq(versions, LAMBDA v : is_candidate(v, game_version, loader))
        release_versions == SelectSeq(candidates, is_release)
    IN  IF candidates = <<>> THEN <<>>
        ELSE IF release_versions # <<>> THEN release_versions ELSE candidates

\* line 105: next((f for f in files if f.get("primary")), None)
HasPrimary(version_info) ==
    \E i \in 1..Len(version_info.files) : version_info.files[i].primary
primary_file(version_info) ==
    version_info.files[CHOOSE i \in 1..Len(version_info.files) :
                          /\ version_info.files[i].primary
                          /\ \A j \in 1..(i - 1) : ~version_info.files[j].primary]

\* ------------------------------------------------------------------------
\* Local archives: the characters of the filename and the embedded manifest
\* ------------------------------------------------------------------------
\* manifest: "notzip" (BadZipFile), "nofile" (no fabric.mod.json), "badjson"
\* (JSONDecodeError), "list" (top level is not an object), "customstr"
\* (custom is not an object), "object" (custom.modrinth and id as given).
Archive(chars, manifest, modrinth, id) ==
    [chars |-> chars, manifest |-> manifest, modrinth |-> modrinth, id |-> id]
Archives ==
    { Archive(<<"m","o","d","-","b","-","f","a","b","r","i","c","-","1",".","0",".","j","a","r">>,
              "object", "mod-a", "mod-b"),
      Archive(<<"M","o","d","a","_","f","o","r","g","e","_","2",".","1",".","j","a","r">>,
              "nofile", None, None),
      Archive(<<"v","o","i","c","e","c","h","a","t","-","f","a","b","r","i","c","-",
                "1",".","2","0",".","1","-","2",".","5",".","0",".","j","a","r">>,
              "badjson", None, None),
      Archive(<<"m","y","s","t","e","r","y",".","j","a","r">>,
              "notzip", None, None),
      Archive(<<"m","o","d","b",".","j","a","r">>,
              "object", None, "mod-b"),
      Archive(<<"w","e","i","r","d",".","j","a","r">>,
              "list", None, None),
      Archive(<<"o","d","d",".","j","a","r">>,
              "customstr", None, "mod-b") }
\* further archives, given to the identity resolver on its own: a manifest
\* whose id is a key of the override table, one with the registry identity
\* only, one with neither field, and the voicechat file with no manifest
ResolverArchives ==
    Archives \cup
    { Archive(<<"s","v","c","-","2",".","5",".","j","a","r">>,
              "object", None, "voicechat"),
      Archive(<<"m","o","d","-","a","-","1",".","0",".","j","a","r">>,
              "object", "mod-b", None),
      Archive(<<"e","m","p","t","y",".","j","a","r">>,
              "object", None, None),
      Archive(<<"v","o","i","c","e","c","h","a","t","-","f","a","b","r","i","c","-",
                "1",".","2","0",".","1","-","2",".","5",".","0",".","j","a","r">>,
              "nofile", None, None) }
FileNames == [a \in ResolverArchives |-> Join(a.chars)]
FileName(archive) == FileNames[archive]
ArchiveNamed(name) == CHOOSE a \in Archives : FileName(a) = name
\* lines 79-80 for every archive
FilenameSlugs == [a \in ResolverArchives |-> filename_slug(a.chars)]
NonJarFile == "notes.txt"

\* ------------------------------------------------------------------------
\* Registry client (lines 41-63, 89-94): one request, one response
\* ------------------------------------------------------------------------
\* A request made by the run and whether its transport succeeded.
Call(kind, key, caller, ok) == [req |-> <<kind, key, caller>>, ok |-> ok]

\* lines 41-50: None for a falsy id (no request), for a transport failure
\* and for a 404; the project otherwise
get_project_from_id(project_id, ok) ==
    IF project_id = None THEN Absent
    ELSE IF ok THEN ProjectByKey(project_id) ELSE Absent

\* lines 52-63
search_project_by_name(query, ok) ==
    IF query = None THEN Absent
    ELSE IF ok THEN SearchHit(query) ELSE Absent

\* ------------------------------------------------------------------------
\* The outcome map: a Python dict, kept in insertion order
\* ------------------------------------------------------------------------
Keys(summ) == {summ[i].key : i \in 1..Len(summ)}
IndexOf(summ, key) == CHOOSE i \in 1..Len(summ) : summ[i].key = key
Row(summ, key) == summ[IndexOf(summ, key)]

\* summary[key] = {...}: replaces the value of an existing key in place,
\* appends a new key at the end
dict_set(summ, key, title, status, version) ==
    LET rec == [key |-> key, title |-> title, status |-> status, version |-> version]
    IN  IF key \in Keys(summ)
        THEN [summ EXCEPT ![IndexOf(summ, key)] = rec]
        ELSE Append(summ, rec)

\* summary[key].update({"status": ..., "version": ...})
dict_update(summ, key, status, version) ==
    [summ EXCEPT ![IndexOf(summ, key)] =
        [@ EXCEPT !.status = status, !.version = version]]

\* ------------------------------------------------------------------------
\* Identity resolver (find_modrinth_project, lines 65-87)
\* ------------------------------------------------------------------------
\* lines 68-76: the manifest's identity, None when there is none; the
\* AttributeError of a non-object top level or custom field is not caught
manifest_raises(archive, readable) ==
    readable /\ archive.manifest \in {"list", "customstr"}
\* line 74 with the two fields the other way round
manifest_id_prefers_id(archive, readable) ==
    IF readable /\ archive.manifest = "object"
    THEN IF archive.id # None THEN archive.id ELSE archive.modrinth
    ELSE None
manifest_id(archive, readable) ==
    IF readable /\ archive.manifest = "object"
    THEN IF archive.modrinth # None THEN archive.modrinth ELSE archive.id
    ELSE None

\* lines 78-83: the candidate string looked up in the registry
candidate_id(archive, readable) ==
    LET embedded == manifest_id(archive, readable)
    IN  apply_overrides(IF embedded = None THEN FilenameSlugs[archive]
                        ELSE embedded)

\* line 85 alone: no search after a direct lookup that returned None
find_modrinth_project_direct_only(archive, readable, ok1, ok2) ==
    LET mod_id == candidate_id(archive, readable)
    IN  [project |-> get_project_from_id(mod_id, ok1),
         calls |-> IF mod_id = None THEN <<>>
                   ELSE <<Call("project", mod_id, "find", ok1)>>]
\* lines 85-87 with the requests they make; ok1, ok2: transport of the
\* direct lookup and of the search
find_modrinth_project(archive, readable, ok1, ok2) ==
    LET mod_id == candidate_id(archive, readable)
        direct == get_project_from_id(mod_id, ok1)
        calls1 == IF mod_id = None THEN <<>>
                  ELSE <<Call("project", mod_id, "find", ok1)>>
    IN  IF Found(direct)
        THEN [project |-> direct, calls |-> calls1]
        ELSE [project |-> search_project_by_name(mod_id, ok2),
              calls |-> IF mod_id = None THEN <<>>
                        ELSE calls1 \o <<Call("search", mod_id, "find", ok2)>>]

\* ------------------------------------------------------------------------
\* Steps of main() as functions of the run's collections
\* ------------------------------------------------------------------------
\* line 190 left out
not_found_row_omitted(summ, filename) == summ

\* line 190
not_found_row(summ, filename) == dict_set(summ, filename, filename, "Not Found", "---")

\* line 184 without the membership test
seed_always(slug, seen) == TRUE

\* line 184
seed_unseen(slug, seen) == slug \notin seen

\* line 216 without the membership test
dep_nonempty(dep_slug, seen) == dep_slug # None

\* line 216
dep_unseen(dep_slug, seen) == dep_slug # None /\ dep_slug \notin seen

\* lines 187, 222: processed_or_queued.add(...)
seen_add_skipped(seen, key) == seen
seen_add(seen, key) == seen \cup {key}

\* line 214
is_required_any(dep) == TRUE
is_required(dep) == dep.dependency_type = "required"

\* line 195 with pop() in place of popleft()
pop_right(queue) == SubSeq(queue, 1, Len(queue) - 1)
\* line 195
popleft(queue) == Tail(queue)

\* line 211 without the mode test
update_status_live(dry_run) == "Updated"

\* line 211
update_status(dry_run) == IF dry_run THEN "Would Update" ELSE "Updated"

\* lines 103-122 without the dry-run return of lines 111-113
download_writes_always(version_info, dry_run, outcome) ==
    IF ~HasPrimary(version_info) THEN {}
    ELSE IF outcome = "refused" THEN {}
    ELSE {primary_file(version_info).filename}

\* lines 103-122: what download_version does to the mods directory.
\* outcome: "ok", "refused" (the request raises before the file is opened),
\* "interrupted" (the stream breaks after the file was created).
download_writes(version_info, dry_run, outcome) ==
    IF ~HasPrimary(version_info) THEN {}
    ELSE IF dry_run THEN {}
    ELSE IF outcome = "refused" THEN {}
    ELSE {primary_file(version_info).filename}
download_raises(version_info, dry_run, outcome) ==
    HasPrimary(version_info) /\ ~dry_run /\ outcome # "ok"

\* lines 213-223: the dependency loop over latest.dependencies from index i;
\* resp[i] is the transport of the lookup made for dependency i
RECURSIVE expand_dependencies(_, _, _, _)
expand_dependencies(deps, i, resp, st) ==
    IF i > Len(deps) THEN st
    ELSE LET dep == deps[i]
             dep_slug == dep.project_id
         IN  IF is_required(dep) /\ dep_unseen(dep_slug, st.seen)
             THEN LET dep_details == get_project_from_id(dep_slug, resp[i])
                      called == [st EXCEPT !.calls =
                                    Append(@, Call("project", dep_slug, "dep", resp[i]))]
                  IN  IF Found(dep_details)
                      THEN expand_dependencies(deps, i + 1, resp,
                             [called EXCEPT
                                !.queue = Append(@, dep_slug),
                                !.enq = Append(@, dep_slug),
                                !.seen = seen_add(@, dep_slug),
                                !.summary = dict_set(@, dep_slug, dep_details.title,
                                                     "Queued", "---")])
                      ELSE expand_dependencies(deps, i + 1, resp, called)
             ELSE expand_dependencies(deps, i + 1, resp, st)

\* ------------------------------------------------------------------------
\* State
\* ------------------------------------------------------------------------
VARIABLES
    args,                 \* parsed command line: test, version, platform
    registry_versions,    \* project id -> version list the registry serves
    mods_dir,             \* names of the files in MODS_DIR
    mods_dir_exists,      \* whether MODS_DIR exists
    backups,              \* backup directory name -> names of the files in it
    fs0,                  \* the file system as the run found it
    pc,                   \* "start", "analyze", "process", "done", "crashed"
    game_version, loader, \* the compatibility target
    backup_dir,           \* where the archives are read from
    local_mods,           \* the .jar files listed at start, in listing order
    next_mod,             \* index in local_mods of the archive analysed next
    summary,              \* the outcome map
    mods_to_process,      \* the resolution queue
    processed_or_queued,  \* the seen set
    resolved,             \* history: per analysed archive, the slug it resolved to or None
    enqueued,             \* history: every identity appended to the queue, in order
    iterations,           \* history: iterations of the processing loop begun
    log,                  \* history: the registry requests of this run
    first_run,            \* <<>>, or the finished run this one is compared with
    sel,                  \* the version selector applied on its own
    res                   \* the identity resolver applied on its own

vars == <<args, registry_versions, mods_dir, mods_dir_exists, backups, fs0, pc,
          game_version, loader, backup_dir, local_mods, next_mod, summary,
          mods_to_process, processed_or_queued, resolved, enqueued,
          iterations, log, first_run, sel, res>>

inputs == <<args, registry_versions, fs0>>
files == <<mods_dir, mods_dir_exists, backups>>
target == <<game_version, loader, backup_dir, local_mods>>
collections == <<summary, mods_to_process, processed_or_queued, enqueued>>

DRY_RUN == args.test   \* line 135

ModsDirName == "mods"
BackupName(i) == IF i = 0 THEN "old mods" ELSE "old mods-" \o ToString(i)

\* backup directories left by earlier runs: "old mods" and "old mods-1"
ExistingBackups == {{BackupName(0), BackupName(1)}}

\* lines 163-168: the first backup name that does not exist yet
fresh_backup_dir(existing) ==
    IF BackupName(0) \notin existing THEN BackupName(0)
    ELSE BackupName(CHOOSE i \in 1..(Cardinality(existing) + 1) :
                       /\ BackupName(i) \notin existing
                       /\ \A j \in 1..(i - 1) : BackupName(j) \in existing)

\* line 147: f.endswith(".jar")
IsJar(f) == f \in {FileName(a) : a \in Archives}

DirFiles(dir) == IF dir = ModsDirName THEN mods_dir ELSE backups[dir]

Failures(calls) == Cardinality({i \in 1..Len(calls) : ~calls[i].ok})

\* The responses an action may draw: within the failure budget and, when the
\* run is compared with a finished one, the same response to the same request.
Admissible(calls) ==
    /\ Failures(log \o calls) <= MaxFailures
    /\ first_run # <<>> =>
         \A j \in 1..Len(calls) :
            LET i == Len(log) + j
            IN  (i <= Len(first_run[1].log) /\ first_run[1].log[i].req = calls[j].req)
                    => calls[j].ok = first_run[1].log[i].ok

NoSel == [versions |-> <<>>, game_version |-> None, loader |-> None,
          result |-> <<>>, done |-> FALSE]

NoRes == [archive |-> Archive(<<>>, None, None, None), readable |-> FALSE,
          ok1 |-> TRUE, ok2 |-> TRUE, done |-> FALSE, raised |-> FALSE,
          project |-> Absent, calls |-> <<>>]

InitRun ==
    /\ pc = "start"
    /\ game_version = None /\ loader = None
    /\ backup_dir = ModsDirName
    /\ local_mods = <<>> /\ next_mod = 0
    /\ summary = <<>> /\ mods_to_process = <<>> /\ processed_or_queued = {}
    /\ resolved = <<>> /\ enqueued = <<>> /\ iterations = 0 /\ log = <<>>

Init ==
    /\ args \in [test : BOOLEAN, version : GameVersions, platform : PlatformInputs]
    /\ registry_versions \in Registries
    /\ \/ mods_dir_exists = FALSE /\ mods_dir = {}
       \/ /\ mods_dir_exists = TRUE
          /\ \E S \in SUBSET Archives :
                /\ Cardinality(S) <= MaxArchives
                /\ mods_dir = {FileName(a) : a \in S} \cup {NonJarFile}
    /\ \E existing \in ExistingBackups : backups = [n \in existing |-> {}]
    /\ fs0 = [mods_dir |-> mods_dir, mods_dir_exists |-> mods_dir_exists,
              backups |-> backups]
    /\ InitRun
    /\ first_run = <<>>
    /\ sel = NoSel
    /\ res = NoRes

\* ------------------------------------------------------------------------
\* main(), lines 126-173: arguments, listing, target, backup
\* ------------------------------------------------------------------------
Start ==
    /\ pc = "start"
    /\ mods_dir_exists' = TRUE
    /\ LET jars == {f \in mods_dir : IsJar(f)}
       IN  IF jars = {}
           THEN /\ pc' = "done"
                /\ UNCHANGED <<mods_dir, backups, target, next_mod>>
           ELSE /\ \E order \in Perms(jars) :
                      /\ first_run # <<>> => order = first_run[1].local_mods
                      /\ local_mods' = order
                /\ game_version' = args.version
                /\ loader' = lower_loader(args.platform)
                /\ IF DRY_RUN
                   THEN /\ backup_dir' = ModsDirName
                        /\ UNCHANGED <<mods_dir, backups>>
                   ELSE LET dir == fresh_backup_dir(DOMAIN backups)
                        IN  /\ backup_dir' = dir
                            /\ backups' = [n \in DOMAIN backups \cup {dir} |->
                                             IF n = dir THEN mods_dir ELSE backups[n]]
                            /\ mods_dir' = mods_dir \ jars
                /\ next_mod' = 1
                /\ pc' = "analyze"
    /\ UNCHANGED <<inputs, collections, resolved, iterations, log, first_run, sel, res>>

\* ------------------------------------------------------------------------
\* main(), lines 178-191: one iteration of the analysis loop
\* ------------------------------------------------------------------------
Analyze ==
    /\ pc = "analyze"
    /\ next_mod <= Len(local_mods)
    /\ LET filename == local_mods[next_mod]
           archive == ArchiveNamed(filename)
           readable == filename \in DirFiles(backup_dir)
       IN  IF manifest_raises(archive, readable)
           THEN /\ pc' = "crashed"
                /\ UNCHANGED <<next_mod, collections, resolved, log>>
           ELSE \E ok1, ok2 \in BOOLEAN :
                  LET found == find_modrinth_project(archive, readable, ok1, ok2)
                      project == found.project
                  IN  /\ Len(found.calls) < 2 => ok2
                      /\ Len(found.calls) < 1 => ok1
                      /\ Admissible(found.calls)
                      /\ log' = log \o found.calls
                      /\ IF Found(project) /\ project.slug # None
                         THEN IF seed_unseen(project.slug, processed_or_queued)
                              THEN /\ mods_to_process' = Append(mods_to_process, project.slug)
                                   /\ enqueued' = Append(enqueued, project.slug)
                                   /\ processed_or_queued' =
                                          seen_add(processed_or_queued, project.slug)
                                   /\ summary' = dict_set(summary, project.slug,
                                                          project.title, "Queued", "---")
                              ELSE UNCHANGED collections
                         ELSE /\ summary' = not_found_row(summary, filename)
                              /\ UNCHANGED <<mods_to_process, processed_or_queued, enqueued>>
                      /\ resolved' = Append(resolved, IF Found(project) THEN project.slug
                                                      ELSE None)
                      /\ next_mod' = next_mod + 1
                      /\ pc' = IF next_mod = Len(local_mods) THEN "process" ELSE "analyze"
    /\ UNCHANGED <<inputs, files, target, iterations, first_run, sel, res>>

\* ------------------------------------------------------------------------
\* main(), lines 194-223: one iteration of the processing loop
\* ------------------------------------------------------------------------
DownloadOutcomes == {"ok", "refused", "interrupted"}

Process ==
    /\ pc = "process"
    /\ mods_to_process # <<>>
    /\ iterations' = iterations + 1
    /\ LET slug == Head(mods_to_process)
           project == ProjectByKey(slug)
       IN  \E vok \in BOOLEAN :
             LET vcall == Call("versions", slug, "main", vok)
             IN  IF ~(vok /\ Found(project))
                 THEN \* get_mod_versions raises: the exception leaves main()
                      /\ Admissible(<<vcall>>)
                      /\ log' = Append(log, vcall)
                      /\ mods_to_process' = popleft(mods_to_process)
                      /\ pc' = "crashed"
                      /\ UNCHANGED <<summary, processed_or_queued, enqueued, files>>
                 ELSE LET versions == registry_versions[project.id]
                          candidates == filter_versions(versions, game_version, loader)
                      IN  IF candidates = <<>>
                          THEN /\ Admissible(<<vcall>>)
                               /\ log' = Append(log, vcall)
                               /\ mods_to_process' = popleft(mods_to_process)
                               /\ summary' = dict_update(summary, slug, "No Update", "N/A")
                               /\ pc' = "process"
                               /\ UNCHANGED <<processed_or_queued, enqueued, files>>
                          ELSE LET latest == candidates[1]
                               IN  \E outcome \in DownloadOutcomes,
                                      resp \in [1..Len(latest.dependencies) -> BOOLEAN] :
                                     /\ (~HasPrimary(latest) \/ DRY_RUN) => outcome = "ok"
                                     /\ mods_dir' = mods_dir \cup
                                            download_writes(latest, DRY_RUN, outcome)
                                     /\ UNCHANGED <<mods_dir_exists, backups>>
                                     /\ IF download_raises(latest, DRY_RUN, outcome)
                                        THEN /\ \A i \in DOMAIN resp : resp[i]
                                             /\ Admissible(<<vcall>>)
                                             /\ log' = Append(log, vcall)
                                             /\ mods_to_process' = popleft(mods_to_process)
                                             /\ pc' = "crashed"
                                             /\ UNCHANGED <<summary, processed_or_queued,
                                                            enqueued>>
                                        ELSE LET st == expand_dependencies(
                                                   latest.dependencies, 1, resp,
                                                   [queue |-> popleft(mods_to_process),
                                                    seen |-> processed_or_queued,
                                                    summary |-> dict_update(summary, slug,
                                                                  update_status(DRY_RUN),
                                                                  latest.version_number),
                                                    enq |-> enqueued,
                                                    calls |-> <<vcall>>])
                                             IN  /\ Admissible(st.calls)
                                                 /\ log' = log \o st.calls
                                                 /\ mods_to_process' = st.queue
                                                 /\ processed_or_queued' = st.seen
                                                 /\ summary' = st.summary
                                                 /\ enqueued' = st.enq
                                                 /\ pc' = "process"
    /\ UNCHANGED <<inputs, target, next_mod, resolved, first_run, sel, res>>

\* ------------------------------------------------------------------------
\* main(), lines 225-239: the queue is empty, the summary is printed
\* ------------------------------------------------------------------------
Report ==
    /\ pc = "process"
    /\ mods_to_process = <<>>
    /\ pc' = "done"
    /\ UNCHANGED <<inputs, files, target, next_mod, collections, resolved,
                   iterations, log, first_run, sel, res>>

Next == Start \/ Analyze \/ Process \/ Report

Spec == Init /\ [][Next]_vars

\* ------------------------------------------------------------------------
\* A dry run followed by a live run on the same inputs: the file system is
\* put back as the first run found it, DRY_RUN is flipped, and the registry
\* answers each request as it answered it in the first run (Admissible).
\* ------------------------------------------------------------------------
Rerun ==
    /\ pc = "done"
    /\ first_run = <<>>
    /\ first_run' = <<[dry |-> DRY_RUN, summary |-> summary, log |-> log,
                       local_mods |-> local_mods]>>
    /\ args' = [args EXCEPT !.test = ~@]
    /\ mods_dir' = fs0.mods_dir
    /\ mods_dir_exists' = fs0.mods_dir_exists
    /\ backups' = fs0.backups
    /\ pc' = "start"
    /\ game_version' = None /\ loader' = None
    /\ backup_dir' = ModsDirName
    /\ local_mods' = <<>> /\ next_mod' = 0
    /\ summary' = <<>> /\ mods_to_process' = <<>> /\ processed_or_queued' = {}
    /\ resolved' = <<>> /\ enqueued' = <<>> /\ iterations' = 0 /\ log' = <<>>
    /\ UNCHANGED <<registry_versions, fs0, sel, res>>

PairInit == Init /\ DRY_RUN

PairNext == Start \/ Analyze \/ Process \/ Report \/ Rerun

PairSpec == PairInit /\ [][PairNext]_vars

\* ------------------------------------------------------------------------
\* The version selector on its own: main(), lines 200-207, for every version
\* list of up to MaxVersions versions and every target
\* ------------------------------------------------------------------------
SelTypes == {"release", "beta", "alpha"}
SelGameVersions == {{"1.21"}, {"1.20", "1.21"}}
SelLoaders == {{"forge"}, {"fabric", "forge"}}
SelShapes == [type : SelTypes, gvs : SelGameVersions, lds : SelLoaders]

\* the version list of the given shapes; the version number is the position
SelVersions(shapes) ==
    [i \in 1..Len(shapes) |->
        Version("v" \o ToString(i), shapes[i].type, shapes[i].gvs, shapes[i].lds,
                <<>>, <<>>)]

SelInit ==
    /\ \E n \in 0..MaxVersions :
         \E shapes \in [1..n -> SelShapes], g \in GameVersions, l \in Loaders :
            sel = [versions |-> SelVersions(shapes), game_version |-> g,
                   loader |-> l, result |-> <<>>, done |-> FALSE]
    /\ args = [test |-> TRUE, version |-> None, platform |-> None]
    /\ registry_versions = Registry(<<>>, <<>>, <<>>)
    /\ mods_dir = {} /\ mods_dir_exists = FALSE /\ backups = << >>
    /\ fs0 = [mods_dir |-> mods_dir, mods_dir_exists |-> mods_dir_exists,
              backups |-> backups]
    /\ InitRun
    /\ first_run = <<>>
    /\ res = NoRes

\* candidates = filter_versions(...); latest = candidates[0]
Select ==
    /\ ~sel.done
    /\ sel' = [sel EXCEPT
                 !.result = filter_versions(sel.versions, sel.game_version, sel.loader),
                 !.done = TRUE]
    /\ UNCHANGED <<args, registry_versions, mods_dir, mods_dir_exists, backups, fs0,
                   pc, game_version, loader, backup_dir, local_mods, next_mod,
                   summary, mods_to_process, processed_or_queued, resolved,
                   enqueued, iterations, log, first_run, res>>

SelSpec == SelInit /\ [][Select]_vars

\* ------------------------------------------------------------------------
\* The identity resolver on its own: find_modrinth_project, lines 65-87, for
\* every archive, readable or missing, and every transport outcome of its
\* two requests
\* ------------------------------------------------------------------------
ResInit ==
    /\ \E a \in ResolverArchives, readable, ok1, ok2 \in BOOLEAN :
          res = [NoRes EXCEPT !.archive = a, !.readable = readable,
                              !.ok1 = ok1, !.ok2 = ok2]
    /\ args = [test |-> TRUE, version |-> None, platform |-> None]
    /\ registry_versions = Registry(<<>>, <<>>, <<>>)
    /\ mods_dir = {} /\ mods_dir_exists = FALSE /\ backups = << >>
    /\ fs0 = [mods_dir |-> mods_dir, mods_dir_exists |-> mods_dir_exists,
              backups |-> backups]
    /\ InitRun
    /\ first_run = <<>>
    /\ sel = NoSel

\* project = find_modrinth_project(jar_path, filename)
Resolve ==
    /\ ~res.done
    /\ res' = IF manifest_raises(res.archive, res.readable)
              THEN [res EXCEPT !.done = TRUE, !.raised = TRUE]
              ELSE LET found == find_modrinth_project(res.archive, res.readable,
                                                      res.ok1, res.ok2)
                   IN  [res EXCEPT !.done = TRUE, !.project = found.project,
                                   !.calls = found.calls]
    /\ UNCHANGED <<args, registry_versions, mods_dir, mods_dir_exists, backups, fs0,
                   pc, game_version, loader, backup_dir, local_mods, next_mod,
                   summary, mods_to_process, processed_or_queued, resolved,
                   enqueued, iterations, log, first_run, sel>>

ResSpec == ResInit /\ [][Resolve]_vars

\* ------------------------------------------------------------------------
\* Vocabulary of the properties
\* ------------------------------------------------------------------------
Statuses == {summary[i].status : i \in 1..Len(summary)}
TerminalStatuses == {"Updated", "Would Update", "No Update", "Not Found"}
Rows(summ, key) == {i \in 1..Len(summ) : summ[i].key = key}

\* the identity has a selected version on record
HasSelected(key) ==
    key \in Keys(summary) /\ Row(summary, key).status \in {"Updated", "Would Update"}

\* the version the run selected for an identity
SelectedVersion(key) ==
    LET vs == registry_versions[ProjectByKey(key).id]
    IN  vs[CHOOSE i \in 1..Len(vs) :
              vs[i].version_number = Row(summary, key).version]

\* the identities a version declares as required dependencies
RequiredTargets(v) ==
    {v.dependencies[i].project_id :
        i \in {j \in 1..Len(v.dependencies) :
                  v.dependencies[j].dependency_type = "required"}} \ {None}

\* the requests of the run so far made by one caller
CallsBy(caller) == {i \in 1..Len(log) : log[i].req[3] = caller}

\* ------------------------------------------------------------------------
\* C1: no identity is appended to the resolution queue more than once in a
\* run, whether two archives resolve to it or two processed mods both
\* declare it as a required dependency.
\* ------------------------------------------------------------------------
C1_NoIdentityEnqueuedTwice == NoDup(enqueued)

\* A finished run in which two archives resolved to one identity and two
\* processed identities both require an identity that was enqueued.
C1_Witness ==
    /\ pc = "done"
    /\ Len(resolved) = 2 /\ resolved[1] # None /\ resolved[1] = resolved[2]
    /\ \E k1, k2 \in Keys(summary), d \in Range(enqueued) :
          /\ k1 # k2
          /\ HasSelected(k1) /\ d \in RequiredTargets(SelectedVersion(k1))
          /\ HasSelected(k2) /\ d \in RequiredTargets(SelectedVersion(k2))

\* ------------------------------------------------------------------------
\* C2: every required dependency with an unseen target that the resolver
\* looks up while processing a selected version is marked seen and given an
\* outcome record, also when the lookup of its title fails: no discovered
\* required dependency is missing from the outcome map.
\* ------------------------------------------------------------------------
C2_RequiredDependencyNeverDropped ==
    \A i \in CallsBy("dep") :
        LET dep_slug == log[i].req[2]
        IN  /\ dep_slug \in processed_or_queued
            /\ dep_slug \in Keys(summary)

\* ------------------------------------------------------------------------
\* C3: a transport failure while listing the versions of a queued identity
\* degrades only that identity to No Update / Not Found; the run is not
\* aborted.
\* ------------------------------------------------------------------------
C3_ListingFailureDegradesOneIdentity ==
    \A i \in 1..Len(log) :
        (log[i].req[1] = "versions" /\ ~log[i].ok) =>
            /\ pc # "crashed"
            /\ Row(summary, log[i].req[2]).status \in {"No Update", "Not Found"}

\* ------------------------------------------------------------------------
\* C4: the processing loop terminates, also when required dependencies form
\* a cycle: the loop never begins more iterations than there are distinct
\* identities enqueued, these are keys of the (finite) registry, every
\* iteration takes one identity off the queue, and a run that completes
\* leaves the queue empty.
\* ------------------------------------------------------------------------
RegistryKeys ==
    {Projects[i].id : i \in 1..Len(Projects)} \cup {Projects[i].slug : i \in 1..Len(Projects)}
C4_LoopTerminates ==
    /\ iterations <= Cardinality(Range(enqueued))
    /\ Range(enqueued) \subseteq RegistryKeys
    /\ pc \in {"process", "done"} => iterations + Len(mods_to_process) = Len(enqueued)
    /\ pc = "done" => mods_to_process = <<>>

\* A finished run over a dependency cycle: an identity whose selected version
\* requires a second one whose selected version requires the first.
C4_Witness ==
    /\ pc = "done"
    /\ mods_to_process = <<>>
    /\ iterations >= 3
    /\ \E k1, k2 \in Range(enqueued) :
          /\ k1 # k2
          /\ HasSelected(k1) /\ HasSelected(k2)
          /\ k2 \in RequiredTargets(SelectedVersion(k1))
          /\ k1 \in RequiredTargets(SelectedVersion(k2))

\* ------------------------------------------------------------------------
\* C5: when a run completes, every local archive has its row in the outcome
\* map: exactly one row keyed by the identity it resolved to, or exactly one
\* row keyed by its filename when it could not be identified.
\* ------------------------------------------------------------------------
C5_OneRowPerArchive ==
    pc = "done" =>
        /\ Len(resolved) = Len(local_mods)
        /\ \A i \in 1..Len(local_mods) :
              LET key == IF resolved[i] # None THEN resolved[i] ELSE local_mods[i]
              IN  Cardinality(Rows(summary, key)) = 1
        /\ NoDup([i \in 1..Len(summary) |-> summary[i].key])

\* A finished run over two archives that resolved to one identity, and one
\* over an identified and an unidentified archive.
C5_Witness ==
    /\ pc = "done"
    /\ Len(local_mods) = 2
    /\ resolved[1] = None /\ resolved[2] # None
    /\ Row(summary, local_mods[1]).status = "Not Found"
    /\ Len(summary) >= 3

\* ------------------------------------------------------------------------
\* C6: every outcome record follows Unseen -> Queued -> terminal: it is
\* created Queued (or Not Found, for an unidentified archive), leaves Queued
\* for a terminal status, never changes once terminal, is never deleted, and
\* no record is Queued when the run completes.
\* ------------------------------------------------------------------------
C6_Step ==
    /\ \A k \in Keys(summary) :
          /\ k \in Keys(summary')
          /\ Cardinality(Rows(summary', k)) = 1
          /\ Row(summary, k).status # "Queued"
                => Row(summary', k).status = Row(summary, k).status
          /\ Row(summary, k).status = "Queued"
                => Row(summary', k).status \in {"Queued"} \cup TerminalStatuses
    /\ \A k \in Keys(summary') \ Keys(summary) :
          \/ Row(summary', k).status = "Queued"
          \/ Row(summary', k).status = "Not Found" /\ k \in Range(local_mods)
    /\ pc' = "done" => \A i \in 1..Len(summary') : summary'[i].status # "Queued"
C6_StatusStateMachine == [][C6_Step]_vars

\* A finished run whose records reached three different terminal statuses,
\* one of them through Queued.
C6_Witness ==
    /\ pc = "done"
    /\ {"Not Found", "No Update"} \subseteq Statuses
    /\ Statuses \cap {"Updated", "Would Update"} # {}
    /\ Len(enqueued) >= 2

\* ------------------------------------------------------------------------
\* C7: the version selected (filter_versions, then element 0) is the first
\* version in input order that lists the target game version and the target
\* loader and is a release, if there is one; otherwise the first that lists
\* both; there is none exactly when no version lists both.  The result keeps
\* the input's order.
\* ------------------------------------------------------------------------
SelMatching ==
    {i \in 1..Len(sel.versions) :
        /\ sel.game_version \in sel.versions[i].game_versions
        /\ sel.loader \in sel.versions[i].loaders}
SelMatchingReleases ==
    {i \in SelMatching : sel.versions[i].version_type = "release"}
First(S) == CHOOSE i \in S : \A j \in S : i <= j
\* the position in the input of the k-th element of the result
SelPosition(k) ==
    CHOOSE i \in 1..Len(sel.versions) : sel.versions[i] = sel.result[k]
C7_SelectsFirstCompatiblePreferringRelease ==
    sel.done =>
        /\ sel.result = <<>> <=> SelMatching = {}
        /\ SelMatchingReleases # {}
              => sel.result[1] = sel.versions[First(SelMatchingReleases)]
        /\ (SelMatching # {} /\ SelMatchingReleases = {})
              => sel.result[1] = sel.versions[First(SelMatching)]
        /\ \A k \in 1..Len(sel.result) : sel.result[k] \in Range(sel.versions)
        /\ \A k \in 1..(Len(sel.result) - 1) : SelPosition(k) < SelPosition(k + 1)

\* The selector has run on a list where a compatible pre-release precedes a
\* compatible release, after an incompatible version.
C7_Witness ==
    /\ sel.done
    /\ SelMatchingReleases # {}
    /\ First(SelMatching) < First(SelMatchingReleases)
    /\ 1 \notin SelMatching
    /\ sel.result[1] = sel.versions[First(SelMatchingReleases)]

\* ------------------------------------------------------------------------
\* C8: Updated (or Would Update) is recorded according to whether the apply
\* step succeeded: an identity whose selected version has no primary file,
\* so that nothing is downloaded, is not recorded as Updated.
\* ------------------------------------------------------------------------
C8_UpdatedOnlyWhenApplied ==
    \A k \in Keys(summary) :
        HasSelected(k) =>
            /\ HasPrimary(SelectedVersion(k))
            /\ Row(summary, k).status = "Updated"
                  => primary_file(SelectedVersion(k)).filename \in mods_dir

DryStatusOf(live_status) ==
    IF live_status = "Updated" THEN "Would Update" ELSE live_status
C10_DryAndLiveRunsAgree ==
    (pc = "done" /\ first_run # <<>>) =>
        LET dry == first_run[1].summary
        IN  /\ first_run[1].dry /\ ~DRY_RUN
            /\ Len(dry) = Len(summary)
            /\ \A i \in 1..Len(summary) :
                  /\ dry[i].key = summary[i].key
                  /\ dry[i].title = summary[i].title
                  /\ dry[i].version = summary[i].version
                  /\ dry[i].status = DryStatusOf(summary[i].status)
                  /\ summary[i].status # "Would Update"

\* Both runs finished, with an updated identity, a discovered dependency
\* and a failed registry request among the responses.
C10_Witness ==
    /\ pc = "done"
    /\ first_run # <<>>
    /\ "Updated" \in Statuses
    /\ CallsBy("dep") # {}
    /\ Failures(log) >= 1
    /\ Len(summary) >= 3

\* ------------------------------------------------------------------------
\* C11: only dependencies of kind required are ever enqueued: every identity
\* in the queue's history, the seen set or the outcome map that is neither
\* the identity of a local archive nor the filename of one is the target of
\* a required dependency of a version the run selected; a dependency of kind
\* optional, incompatible or embedded adds nothing.
\* ------------------------------------------------------------------------
DependencyIntroduced ==
    (Range(enqueued) \cup processed_or_queued \cup Keys(summary))
        \ (Range(resolved) \cup Range(local_mods))
C11_OnlyRequiredEnqueued ==
    \A d \in DependencyIntroduced :
        \E k \in Keys(summary) :
            HasSelected(k) /\ d \in RequiredTargets(SelectedVersion(k))

\* the targets of the dependencies of a version that are not required
OtherTargets(v) ==
    {v.dependencies[i].project_id :
        i \in {j \in 1..Len(v.dependencies) :
                  v.dependencies[j].dependency_type
                      \in {"optional", "incompatible", "embedded"}}}

\* A finished run that selected a version declaring an optional, an
\* incompatible or an embedded dependency on a registry project, and that
\* project was left out of the queue, the seen set and the outcome map,
\* while a required dependency of the run was enqueued.
C11_Witness ==
    /\ pc = "done"
    /\ DependencyIntroduced # {}
    /\ \E k \in Keys(summary) :
          /\ HasSelected(k)
          /\ \E d \in OtherTargets(SelectedVersion(k)) \cap ProjectIds :
                d \notin (Range(enqueued) \cup processed_or_queued \cup Keys(summary))

\* ------------------------------------------------------------------------
\* C12: the size of the seen set never decreases, and it equals the number
\* of distinct identities ever enqueued or marked Not Found.
\* ------------------------------------------------------------------------
MarkedNotFound == {k \in Keys(summary) : Row(summary, k).status = "Not Found"}
EverEnqueued == Range(enqueued)
C12_SeenCountsEnqueuedAndNotFound ==
    Cardinality(processed_or_queued) = Cardinality(EverEnqueued \cup MarkedNotFound)

\* C12 as the code has it: the size of the seen set never decreases, and the
\* seen set is the set of identities ever enqueued; an archive marked Not
\* Found is recorded under its filename and is not counted.
C12_Step ==
    /\ Cardinality(processed_or_queued') >= Cardinality(processed_or_queued)
    /\ processed_or_queued' = Range(enqueued')
    /\ Cardinality(processed_or_queued') = Cardinality(Range(enqueued'))
    /\ MarkedNotFound' \cap processed_or_queued' = {}
C12_SeenCountsEnqueued == [][C12_Step]_vars

\* A finished run with an archive marked Not Found and a seen set holding a
\* seeded identity and a discovered dependency.
C12_Witness ==
    /\ pc = "done"
    /\ MarkedNotFound # {}
    /\ processed_or_queued \cap Range(resolved) # {}
    /\ processed_or_queued \ Range(resolved) # {}

\* the identity the manifest of the resolver's archive yields: the explicit
\* registry identity (custom.modrinth) when present, else the mod id
ResEmbedded ==
    IF res.readable /\ res.archive.manifest = "object"
    THEN IF res.archive.modrinth # None THEN res.archive.modrinth
         ELSE res.archive.id
    ELSE None
\* the candidate strings the resolver sent to the registry
ResCandidates == {res.calls[i].req[2] : i \in 1..Len(res.calls)}

\* ------------------------------------------------------------------------
\* C13: when the archive's manifest yields an identity (custom.modrinth
\* before id), that identity is the candidate the resolver confirms with the
\* registry, and the filename-derived slug is not used, also when the two
\* disagree.
\* ------------------------------------------------------------------------
C13_ManifestIdentityIsCandidate ==
    (res.done /\ ~res.raised /\ ResEmbedded # None) =>
        ResCandidates = {ResEmbedded}

\* C13 as the code has it: the candidate is the manifest's identity after
\* the override table was applied to it (line 82 is not restricted to
\* filename-derived slugs); the filename-derived slug is not used.
C13_ManifestIdentityOverridden ==
    (res.done /\ ~res.raised /\ ResEmbedded # None) =>
        /\ ResCandidates = {apply_overrides(ResEmbedded)}
        /\ ResEmbedded \notin DOMAIN MOD_ID_OVERRIDES
              => ResCandidates = {ResEmbedded}
        /\ res.calls[1].req[1] = "project"

\* The resolver has run on an archive whose manifest has both fields, which
\* differ from each other, and whose filename-derived slug is the mod id:
\* the registry identity was looked up.
C13_Witness ==
    /\ res.done
    /\ res.archive.modrinth # None /\ res.archive.id # None
    /\ res.archive.modrinth # res.archive.id
    /\ FilenameSlugs[res.archive] = res.archive.id
    /\ ResCandidates = {res.archive.modrinth}
    /\ Found(res.project)

\* ------------------------------------------------------------------------
\* C14: malformed or unreadable embedded metadata (not a zip, a missing
\* file, invalid JSON, a JSON top level or custom field that is not an
\* object) is treated as no embedded identity: find_modrinth_project raises
\* nothing and goes on with the filename-derived candidate.
\* ------------------------------------------------------------------------
ResMalformed == ~res.readable \/ res.archive.manifest # "object"
C14_MalformedMetadataIsNoIdentity ==
    (res.done /\ ResMalformed) =>
        /\ ~res.raised
        /\ ResCandidates \subseteq {apply_overrides(FilenameSlugs[res.archive])}

\* ------------------------------------------------------------------------
\* C15: for an archive with no embedded identity, a filename-derived slug
\* that is a key of the override table is replaced by the mapped identity
\* before any registry request; voicechat-fabric-1.20.1-2.5.0.jar, whose
\* slug is voicechat, is looked up as simple-voice-chat.
\* ------------------------------------------------------------------------
VoicechatJar == "voicechat-fabric-1.20.1-2.5.0.jar"
C15_OverrideReplacesFilenameSlug ==
    (res.done /\ ~res.raised /\ ResEmbedded = None) =>
        LET slug == FilenameSlugs[res.archive]
        IN  /\ slug \in DOMAIN MOD_ID_OVERRIDES
                  => /\ res.calls # <<>>
                     /\ ResCandidates = {MOD_ID_OVERRIDES[slug]}
            /\ FileName(res.archive) = VoicechatJar
                  => /\ slug = "voicechat"
                     /\ res.calls[1].req = <<"project", "simple-voice-chat", "find">>
                     /\ ResCandidates = {"simple-voice-chat"}

\* The resolver has run on voicechat-fabric-1.20.1-2.5.0.jar without a
\* manifest file and found the project simple-voice-chat by direct lookup.
C15_Witness ==
    /\ res.done
    /\ res.readable /\ res.archive.manifest = "nofile"
    /\ FileName(res.archive) = VoicechatJar
    /\ Len(res.calls) = 1
    /\ res.project.slug = "simple-voice-chat"

\* the project a logged request of the resolver returned, Absent for none
Returned(call) ==
    IF ~call.ok THEN Absent
    ELSE IF call.req[1] = "search" THEN SearchHit(call.req[2])
    ELSE ProjectByKey(call.req[2])

\* ------------------------------------------------------------------------
\* C16: identity confirmation makes the direct lookup first and the name
\* search, with the same candidate, only when the direct lookup returned
\* absent (a transport failure included).  An archive gets a Not Found
\* record keyed by its filename, and is neither enqueued nor marked seen,
\* exactly when both lookups fail; that failure does not abort the run: the
\* analysis goes on to the next archive.
\* ------------------------------------------------------------------------
C16_Step ==
    pc = "analyze" =>
        LET filename == local_mods[next_mod]
            new == SubSeq(log', Len(log) + 1, Len(log'))
            both_fail == \A i \in 1..Len(new) : ~Found(Returned(new[i]))
        IN  IF pc' = "crashed"
            THEN \* not a failed lookup: no request was made
                 /\ new = <<>>
                 /\ manifest_raises(ArchiveNamed(filename),
                                    filename \in DirFiles(backup_dir))
            ELSE /\ Len(new) <= 2
                 /\ \A i \in 1..Len(new) : new[i].req[3] = "find"
                 /\ Len(new) >= 1 => new[1].req[1] = "project"
                 /\ Len(new) = 2 <=> (Len(new) >= 1 /\ ~Found(Returned(new[1])))
                 /\ Len(new) = 2 => new[2].req = <<"search", new[1].req[2], "find">>
                 /\ both_fail <=> /\ filename \in Keys(summary')
                                  /\ Row(summary', filename).status = "Not Found"
                 /\ both_fail =>
                       /\ mods_to_process' = mods_to_process
                       /\ enqueued' = enqueued
                       /\ processed_or_queued' = processed_or_queued
                       /\ filename \notin processed_or_queued'
                       /\ Len(summary') = Len(summary) + 1
                 /\ next_mod' = next_mod + 1
                 /\ pc' = IF next_mod < Len(local_mods) THEN "analyze" ELSE "process"
C16_LookupFallbackAndNotFound == [][C16_Step]_vars

\* The first archive failed both lookups, the direct one in transport, and
\* has its Not Found record; the second archive was analysed after it and
\* identified by the name search.
C16_Witness ==
    /\ pc = "process"
    /\ Len(resolved) = 2 /\ resolved[1] = None /\ resolved[2] # None
    /\ Row(summary, local_mods[1]).status = "Not Found"
    /\ local_mods[1] \notin processed_or_queued
    /\ Len(log) = 4
    /\ ~log[1].ok
    /\ log[2].req[1] = "search" /\ log[4].req[1] = "search"
    /\ Found(Returned(log[4]))

\* the identities whose processing has begun, in order: each iteration of
\* the loop lists the versions of the identity it dequeued
Dequeued ==
    LET listings == SelectSeq(log, LAMBDA c : c.req[1] = "versions")
    IN  [i \in 1..Len(listings) |-> listings[i].req[2]]
Seeded == Range(resolved) \ {None}

\* ------------------------------------------------------------------------
\* C17: identities are dequeued in the order in which they were enqueued:
\* the identities processed so far are the first ones of the enqueue
\* history, in its order, and the queue is the rest of it, so that a newly
\* discovered dependency stands behind every identity queued at that moment;
\* every identity seeded from a local archive precedes every discovered
\* dependency.
\* ------------------------------------------------------------------------
C17_FifoOrder ==
    /\ Len(Dequeued) = iterations
    /\ iterations <= Len(enqueued)
    /\ Dequeued = SubSeq(enqueued, 1, iterations)
    /\ mods_to_process = SubSeq(enqueued, iterations + 1, Len(enqueued))
    /\ \A i, j \in 1..Len(enqueued) :
          (i < j /\ enqueued[j] \in Seeded) => enqueued[i] \in Seeded

\* A finished run over two seeded identities in which the first one's
\* selected version required a dependency: the dependency was enqueued when
\* the second seeded identity was waiting, and was processed after it.
C17_Witness ==
    /\ pc = "done"
    /\ Len(enqueued) >= 3
    /\ enqueued[1] \in Seeded /\ enqueued[2] \in Seeded
    /\ enqueued[3] \notin Seeded
    /\ HasSelected(enqueued[1])
    /\ enqueued[3] \in RequiredTargets(SelectedVersion(enqueued[1]))
    /\ Dequeued = enqueued

\* the registry lists no version of the identity for the target game
\* version and loader
NoCompatible(key) ==
    LET vs == registry_versions[ProjectByKey(key).id]
    IN  \A i \in 1..Len(vs) :
           ~(game_version \in vs[i].game_versions /\ loader \in vs[i].loaders)

\* ------------------------------------------------------------------------
\* C18: when no version of the dequeued identity is compatible with the
\* target, the step sets its record to No Update with version N/A and does
\* nothing else: the downloader is not invoked (no file appears), nothing
\* is appended to the queue behind the dequeued identity, the seen set and
\* every other record are unchanged and no dependency is looked up.
\* ------------------------------------------------------------------------
C18_Step ==
    (pc = "process" /\ iterations' = iterations + 1 /\ pc' # "crashed"
        /\ NoCompatible(Head(mods_to_process))) =>
        LET slug == Head(mods_to_process)
        IN  /\ Row(summary', slug).status = "No Update"
            /\ Row(summary', slug).version = "N/A"
            /\ Row(summary', slug).title = Row(summary, slug).title
            /\ Len(summary') = Len(summary)
            /\ \A i \in 1..Len(summary) :
                  summary[i].key # slug => summary'[i] = summary[i]
            /\ mods_to_process' = Tail(mods_to_process)
            /\ processed_or_queued' = processed_or_queued
            /\ enqueued' = enqueued
            /\ mods_dir' = mods_dir /\ backups' = backups
            /\ Len(log') = Len(log) + 1
            /\ log'[Len(log')].req = <<"versions", slug, "main">>
C18_NoCandidateOnlyMarksNoUpdate == [][C18_Step]_vars

\* A live run has set an identity to No Update while another identity was
\* waiting in the queue and other records existed, and the versions the
\* registry lists for it declare a required dependency.
C18_Witness ==
    /\ ~DRY_RUN
    /\ pc = "process"
    /\ mods_to_process # <<>>
    /\ iterations >= 1
    /\ Len(summary) >= 3
    /\ LET slug == enqueued[iterations]
       IN  /\ Row(summary, slug).status = "No Update"
           /\ Row(summary, slug).version = "N/A"
           /\ \E i \in 1..Len(registry_versions[ProjectByKey(slug).id]) :
                 RequiredTargets(registry_versions[ProjectByKey(slug).id][i]) # {}

\* ------------------------------------------------------------------------
\* C19: between loop steps every identity in the resolution queue is in the
\* seen set and has an outcome record whose status is Queued, and every
\* identity in the seen set has exactly one outcome record.
\* ------------------------------------------------------------------------
C19_QueueSeenRecordsConsistent ==
    /\ \A i \in 1..Len(mods_to_process) :
          LET k == mods_to_process[i]
          IN  /\ k \in processed_or_queued
              /\ Cardinality(Rows(summary, k)) = 1
              /\ Row(summary, k).status = "Queued"
    /\ \A k \in processed_or_queued : Cardinality(Rows(summary, k)) = 1

\* In the middle of the processing loop: a seeded identity and a discovered
\* dependency wait in the queue while another identity of the seen set has
\* reached a terminal status.
C19_Witness ==
    /\ pc = "process"
    /\ Len(mods_to_process) >= 2
    /\ Range(mods_to_process) \cap Seeded # {}
    /\ Range(mods_to_process) \ Seeded # {}
    /\ \E k \in processed_or_queued : Row(summary, k).status \in TerminalStatuses

\* ------------------------------------------------------------------------
\* C20: a registry project is processed at most once per run: no two
\* iterations of the processing loop list the versions of the same project,
\* and no two outcome records belong to the same project, also when the
\* project was seeded under its slug and is required under its project id.
\* ------------------------------------------------------------------------
C20_ProjectProcessedAtMostOnce ==
    /\ \A i, j \in 1..Len(Dequeued) :
          i # j => ProjectByKey(Dequeued[i]) # ProjectByKey(Dequeued[j])
    /\ \A k1, k2 \in Keys(summary) \cap RegistryKeys :
          k1 # k2 => ProjectByKey(k1) # ProjectByKey(k2)

====
